---- MODULE Spec2Model ----
(***************************************************************************)
(* Model of logr's per-target asynchronous delivery engine (type Basic):   *)
(* the bounded channel b.in, the worker goroutine Basic.start with its     *)
(* recover/respawn, the flush drain Basic.flush, the producers' Basic.Log  *)
(* with its overflow handler and bounded blocking send, Basic.Shutdown,    *)
(* and the record writer's possible results (nil, error, panic); the        *)
(* target's level filter (StdFilter, Basic.IsLevelEnabled) and the         *)
(* queue-depth sampler Basic.startMetricsUpdater.                          *)
(*                                                                         *)
(* Go channel semantics used: a send on a closed channel panics in the     *)
(* sender (also for a sender already blocked in a select when the channel  *)
(* is closed); a receive from a closed channel yields the buffered values  *)
(* first and then the zero value (a nil *LogRec) without blocking; range   *)
(* ends when the channel is closed and empty.  A blocked sender is served  *)
(* by the runtime when a slot frees; here it takes the slot in a step of   *)
(* its own, which allows every order the runtime can produce.              *)
(***************************************************************************)
EXTENDS Integers, Sequences, FiniteSets

\* ---- bounds of the model
MaxRecs == 3        \* Log calls made in one behaviour (record ids 1..MaxRecs)
NumProducers == 2   \* goroutines calling Log concurrently
MaxCap == 2         \* largest maxQueued passed to Start
CustomLevelID == 7  \* Level.ID of a level that is none of the seven standard ones

Producers == 1..NumProducers
Ids == 1..MaxRecs

VARIABLES
  started,        \* Start has run (b.in, b.done allocated, worker launched)
  metrics,        \* Metrics has run: the five metric handles are non-nil
  cap,            \* cap(b.in)
  handler,        \* lgr.OnTargetQueueFull: "nil" or "set"
  filterArg,      \* the filter argument of Start: <<>> (nil) or <<StdFilter>>
  filter,         \* b.filter: <<>> before Start, then <<StdFilter>>
  query,          \* the last filter call and what it returned (<<>>: none)
  levels,         \* id -> Level.ID the logger checked for the record (-1: none)
  sampler,        \* startMetricsUpdater: none, wait (in select), tick, exited
  gauge,          \* last value given to queueSizeGauge.Set (-1: never set)
  in,             \* buffered contents of b.in, head first (record ids)
  inClosed,       \* close(b.in) has run
  done,           \* number of close(b.done) calls executed
  wpc,            \* worker position: none, main (range b.in), flush (the
                  \* select of flush()), signal (waiting in flush()'s send
                  \* on the marker's completion channel), exited
  curFlush,       \* marker whose channel the running flush() holds (0: none)
  deq,            \* receives from b.in by the worker, in order: [id, by]
  respawns,       \* number of worker respawns after a recovered panic
  ppc,            \* producer position: idle, blocked (second select), panicked
  prec,           \* record a producer is handing to Log (0: none)
  kinds,          \* id -> "none" (not created), "rec", "flush" (rec.flush != nil)
  loggedCounter, errorCounter, droppedCounter, blockedCounter,
  spc,            \* Shutdown caller: idle, waiting, returned
  sres,           \* Shutdown result: "none", "nil", "timeout"
  svia,           \* select branch Shutdown left by: "none", "done", "ctx"
  \* ---- history of observable events
  enq,            \* record ids in the order they entered b.in
  writes,         \* calls of b.w.Write in order: [id, res, by]
  signals,        \* id -> number of sends on that marker's completion channel
  reported,       \* id -> [timeout, write]: ReportError calls per record
  calls,          \* id -> facts about the Log call that carried the record
  atShutdown      \* ids buffered in b.in when Shutdown closed it

engineVars == <<started, metrics, cap, handler, filterArg, filter, query, levels,
                sampler, gauge>>
chanVars == <<in, inClosed, enq>>
workerVars == <<wpc, curFlush, respawns, done, deq>>
producerVars == <<ppc, prec, kinds, calls>>
counterVars == <<loggedCounter, errorCounter, droppedCounter, blockedCounter>>
shutdownVars == <<spc, sres, svia, atShutdown>>
outVars == <<writes, signals, reported>>
vars == <<engineVars, chanVars, workerVars, producerVars, counterVars,
          shutdownVars, outVars>>

\* calls[r]: full = the non-blocking send failed; hcalls = overflow handler
\* invocations; waited = the call entered the second (blocking) select;
\* blockedIncs, droppedIncs = Inc() calls on the two counters;
\* fate = "none", "enqueued", "dropped", "timeout" or "panic"
NoCall == [full |-> FALSE, hcalls |-> 0, waited |-> FALSE, blockedIncs |-> 0,
           droppedIncs |-> 0, fate |-> "none"]

\* the state after construction, whatever filter Start is going to be given
InitEngine ==
  /\ started = FALSE
  /\ metrics = FALSE
  /\ cap = 0
  /\ handler \in {"nil", "set"}
  /\ in = <<>>
  /\ inClosed = FALSE
  /\ done = 0
  /\ wpc = "none"
  /\ curFlush = 0
  /\ respawns = 0
  /\ ppc = [p \in Producers |-> "idle"]
  /\ prec = [p \in Producers |-> 0]
  /\ kinds = [i \in Ids |-> "none"]
  /\ loggedCounter = 0
  /\ errorCounter = 0
  /\ droppedCounter = 0
  /\ blockedCounter = 0
  /\ spc = "idle"
  /\ sres = "none"
  /\ svia = "none"
  /\ enq = <<>>
  /\ writes = <<>>
  /\ signals = [i \in Ids |-> 0]
  /\ reported = [i \in Ids |-> [timeout |-> 0, write |-> 0]]
  /\ calls = [i \in Ids |-> NoCall]
  /\ atShutdown = {}
  /\ filter = <<>>
  /\ query = <<>>
  /\ levels = [i \in Ids |-> -1]
  /\ sampler = "none"
  /\ gauge = -1
  /\ deq = <<>>

\* Log, the worker and Shutdown never consult b.filter, so the engine is
\* explored with the nil filter argument; the filter has specifications of its
\* own below
Init ==
  /\ InitEngine
  /\ filterArg = <<>>

\* ---- helpers

\* rec.flush != nil
IsFlush(r) == kinds[r] = "flush"

\* `if b.xCounter != nil { b.xCounter.Inc() }`
CounterInc(c) == IF metrics THEN c + 1 ELSE c

\* number of Inc() calls that statement makes
IncCalls == IF metrics THEN 1 ELSE 0

\* mutation of Send: the record is put in front of the buffered ones
SendFront(q, r) == <<r>> \o q

\* b.in <- rec
Send(q, r) == Append(q, r)

\* the channel has a free slot
HasRoom == Len(in) < cap

\* ---- levels and StdFilter (filterstd.go)

\* a Level: its ID, its Name and its Stacktrace flag
Panic == [ID |-> 0, Name |-> "panic", Stacktrace |-> FALSE]
Fatal == [ID |-> 1, Name |-> "fatal", Stacktrace |-> FALSE]
Error == [ID |-> 2, Name |-> "error", Stacktrace |-> FALSE]
Warn == [ID |-> 3, Name |-> "warn", Stacktrace |-> FALSE]
Info == [ID |-> 4, Name |-> "info", Stacktrace |-> FALSE]
Debug == [ID |-> 5, Name |-> "debug", Stacktrace |-> FALSE]
Trace == [ID |-> 6, Name |-> "trace", Stacktrace |-> FALSE]

StdLevels == {Panic, Fatal, Error, Warn, Info, Debug, Trace}

\* the zero value of Level (`var levelEnabled Level`, an unset struct field)
ZeroLevel == [ID |-> 0, Name |-> "", Stacktrace |-> FALSE]

\* levels a caller asks about: the standard ones, a custom level beyond Trace,
\* and a caller-made level that reuses a standard ID under another name
LevelInputs ==
  StdLevels \cup {[ID |-> CustomLevelID, Name |-> "custom", Stacktrace |-> FALSE],
                  [ID |-> Warn.ID, Name |-> "alias", Stacktrace |-> FALSE]}

\* the StdFilter values given to Start
StdFilters == [Lvl : StdLevels, Stacktrace : StdLevels]

\* mutation of IsEnabled: the filter's own level is excluded
IsEnabledStrict(lt, level) == level.ID < lt.Lvl.ID

\* StdFilter.IsEnabled
IsEnabled(lt, level) == level.ID <= lt.Lvl.ID

\* StdFilter.IsStacktraceEnabled
IsStacktraceEnabled(lt, level) == level.ID <= lt.Stacktrace.ID

\* the `switch level.ID` of GetEnabledLevel: the standard level with that ID,
\* `default:` the level as given
StdLevelOf(level) ==
  IF \E c \in StdLevels : c.ID = level.ID
    THEN CHOOSE c \in StdLevels : c.ID = level.ID
    ELSE level

\* StdFilter.GetEnabledLevel: <<levelEnabled, enabled>>
GetEnabledLevel(lt, level) ==
  LET enabled == level.ID <= lt.Lvl.ID
      stackTrace == level.ID <= lt.Stacktrace.ID
      levelEnabled == IF enabled THEN StdLevelOf(level) ELSE ZeroLevel
  IN <<IF stackTrace THEN [levelEnabled EXCEPT !.Stacktrace = TRUE]
                     ELSE levelEnabled,
       enabled>>

\* mutation of IsLevelEnabled: every level is reported enabled
IsLevelEnabledAlways(lvl) ==
  [enabled |-> TRUE, stacktrace |-> IsStacktraceEnabled(filter[1], lvl)]

\* Basic.IsLevelEnabled: (enabled, stacktrace)
IsLevelEnabled(lvl) ==
  [enabled |-> IsEnabled(filter[1], lvl),
   stacktrace |-> IsStacktraceEnabled(filter[1], lvl)]

\* mutation of DefaultFilter: the fallback enables the Panic level only
DefaultFilterPanic == [Lvl |-> Panic, Stacktrace |-> ZeroLevel]

\* Start: `filter = &StdFilter{Lvl: Fatal}`
DefaultFilter == [Lvl |-> Fatal, Stacktrace |-> ZeroLevel]

\* ---- Metrics, Start

Metrics ==
  /\ ~started
  /\ ~metrics
  /\ metrics' = TRUE
  /\ UNCHANGED <<started, cap, handler, filterArg, filter, query, levels,
                 sampler, gauge, chanVars, workerVars, producerVars,
                 counterVars, shutdownVars, outVars>>

Start ==
  /\ ~started
  /\ \E maxQueued \in 1..MaxCap :
       /\ cap' = maxQueued
       /\ started' = TRUE
       /\ wpc' = "main"
  /\ filter' = IF filterArg = <<>> THEN <<DefaultFilter>> ELSE filterArg
  /\ sampler' = IF metrics THEN "wait" ELSE "none"  \* b.queueSizeGauge != nil
  /\ UNCHANGED <<metrics, handler, filterArg, query, levels, gauge, chanVars,
                 curFlush, respawns, done, deq, producerVars, counterVars,
                 shutdownVars, outVars>>

\* ---- Log (producers)

\* the record a new Log call carries: the lowest unused id
NextId == CHOOSE i \in Ids : kinds[i] = "none" /\ \A j \in Ids : j < i => kinds[j] # "none"

\* `handler != nil && handler(b.target, rec, cap(b.in))`: the values it can take,
\* each with the number of handler invocations it makes
HandlerResults ==
  IF handler = "nil" THEN {[ret |-> FALSE, n |-> 0]}
  ELSE {[ret |-> TRUE, n |-> 1], [ret |-> FALSE, n |-> 1]}

\* mutation of DroppedInc: the drop is counted twice
DroppedIncTwice(c) == CounterInc(CounterInc(c))

\* `if b.droppedCounter != nil { b.droppedCounter.Inc() }`
DroppedInc(c) == CounterInc(c)

\* Log from its entry to its return or to the second, blocking select: the
\* first select (`case b.in <- rec:` / `default:`), the overflow handler and
\* the dropped or blocked counter
LogEnqueue(p) ==
  /\ started
  /\ ppc[p] = "idle"
  /\ \E i \in Ids : kinds[i] = "none"
  /\ \E k \in {"rec", "flush"}, h \in HandlerResults :
       LET r == NextId IN
       /\ kinds' = [kinds EXCEPT ![r] = k]
       /\ \/ /\ inClosed                      \* send on a closed channel
             /\ ppc' = [ppc EXCEPT ![p] = "panicked"]
             /\ prec' = [prec EXCEPT ![p] = r]
             /\ calls' = [calls EXCEPT ![r].fate = "panic"]
             /\ UNCHANGED <<in, enq, droppedCounter, blockedCounter>>
          \/ /\ ~inClosed
             /\ HasRoom                       \* case b.in <- rec:
             /\ in' = Send(in, r)
             /\ enq' = Append(enq, r)
             /\ calls' = [calls EXCEPT ![r].fate = "enqueued"]
             /\ UNCHANGED <<ppc, prec, droppedCounter, blockedCounter>>
          \/ /\ ~inClosed
             /\ ~HasRoom                      \* default:
             /\ h.ret                         \* drop the record
             /\ droppedCounter' = DroppedInc(droppedCounter)
             /\ calls' = [calls EXCEPT ![r].full = TRUE,
                                       ![r].hcalls = @ + h.n,
                                       ![r].droppedIncs = @ + IncCalls,
                                       ![r].fate = "dropped"]
             /\ UNCHANGED <<in, enq, ppc, prec, blockedCounter>>
          \/ /\ ~inClosed
             /\ ~HasRoom                      \* default:
             /\ ~h.ret
             /\ blockedCounter' = CounterInc(blockedCounter)
             /\ calls' = [calls EXCEPT ![r].full = TRUE,
                                       ![r].hcalls = @ + h.n,
                                       ![r].blockedIncs = @ + IncCalls,
                                       ![r].waited = TRUE]
             /\ ppc' = [ppc EXCEPT ![p] = "blocked"]
             /\ prec' = [prec EXCEPT ![p] = r]
             /\ UNCHANGED <<in, enq, droppedCounter>>
  /\ UNCHANGED <<engineVars, inClosed, workerVars, loggedCounter, errorCounter,
                 shutdownVars, outVars>>

\* second select, `case b.in <- rec:`
LogBlockedSend(p) ==
  /\ ppc[p] = "blocked"
  /\ LET r == prec[p] IN
     \/ /\ inClosed                           \* send on a closed channel
        /\ ppc' = [ppc EXCEPT ![p] = "panicked"]
        /\ calls' = [calls EXCEPT ![r].fate = "panic"]
        /\ UNCHANGED <<in, enq, prec>>
     \/ /\ ~inClosed
        /\ HasRoom
        /\ in' = Send(in, r)
        /\ enq' = Append(enq, r)
        /\ calls' = [calls EXCEPT ![r].fate = "enqueued"]
        /\ ppc' = [ppc EXCEPT ![p] = "idle"]
        /\ prec' = [prec EXCEPT ![p] = 0]
  /\ UNCHANGED <<engineVars, inClosed, workerVars, kinds, counterVars,
                 shutdownVars, outVars>>

\* what the timeout branch does with the channel: nothing
TimeoutQueue(q, r) == q

\* mutation of LogTimeout: the second select has no timer case
LogTimeoutMissing(p) == FALSE /\ UNCHANGED vars

\* second select, `case <-time.After(lgr.enqueueTimeout()):`
LogTimeout(p) ==
  /\ ppc[p] = "blocked"
  /\ LET r == prec[p] IN
     /\ reported' = [reported EXCEPT ![r].timeout = @ + 1]
     /\ calls' = [calls EXCEPT ![r].fate = "timeout"]
     /\ in' = TimeoutQueue(in, r)
     /\ enq' = IF in' = in THEN enq ELSE Append(enq, r)
  /\ ppc' = [ppc EXCEPT ![p] = "idle"]
  /\ prec' = [prec EXCEPT ![p] = 0]
  /\ UNCHANGED <<engineVars, inClosed, workerVars, kinds, counterVars,
                 shutdownVars, writes, signals>>

\* ---- the worker: Basic.start and Basic.flush

\* b.w.Write(rec) returns nil, returns an error, or panics
WriteResults == {"ok", "err", "panic"}

\* mutation of Recv: the receive yields the newest buffered value
RecvLast(q) == q[Len(q)]

\* the value a receive takes from the channel
Recv(q) == Head(q)

\* mutation of RangeEnds: the loop ends as soon as the channel is closed
RangeEndsOnClose == inClosed

\* `for rec := range b.in` ends: the channel is closed and drained
RangeEnds == in = <<>> /\ inClosed

\* mutation of Respawn: close(b.done) runs on the panicking worker's way out
RespawnClosingDone ==
  /\ wpc' = "main"
  /\ curFlush' = 0
  /\ respawns' = respawns + 1
  /\ done' = done + 1

\* mutation of Respawn: the panic is recovered but no new worker is started
RespawnMissing ==
  /\ wpc' = "exited"
  /\ curFlush' = 0
  /\ respawns' = respawns
  /\ done' = done

\* the deferred recover: report to stderr and `go b.start()`; the panicking
\* worker unwinds without reaching close(b.done)
Respawn ==
  /\ wpc' = "main"
  /\ curFlush' = 0
  /\ respawns' = respawns + 1
  /\ done' = done

\* ReportError calls made for one failed Write
WriteErrorReports == 1

\* mutation of WorkerWrite: the dequeued record is let go without a Write call
WorkerWriteSkipped(r) ==
  /\ wpc' = "main"
  /\ UNCHANGED <<curFlush, respawns, done, loggedCounter, errorCounter, writes,
                 reported>>

\* main loop, ordinary record: b.w.Write(rec) and the counters
WorkerWrite(r) ==
  \E res \in WriteResults :
     /\ writes' = Append(writes, [id |-> r, res |-> res, by |-> "main"])
     /\ \/ /\ res = "ok"
           /\ loggedCounter' = CounterInc(loggedCounter)
           /\ wpc' = "main"
           /\ UNCHANGED <<errorCounter, reported, curFlush, respawns, done>>
        \/ /\ res = "err"
           /\ errorCounter' = CounterInc(errorCounter)
           /\ reported' = [reported EXCEPT ![r].write = @ + WriteErrorReports]
           /\ wpc' = "main"
           /\ UNCHANGED <<loggedCounter, curFlush, respawns, done>>
        \/ /\ res = "panic"
           /\ Respawn
           /\ UNCHANGED <<loggedCounter, errorCounter, reported>>

\* one iteration of `for rec := range b.in`, or the loop's end and
\* close(b.done)
WorkerRecv ==
  /\ wpc = "main"
  /\ \/ /\ in # <<>>
        /\ in' = Tail(in)
        /\ deq' = Append(deq, [id |-> Recv(in), by |-> "main"])
        /\ IF IsFlush(Recv(in))
             THEN /\ wpc' = "flush"           \* b.flush(rec.flush)
                  /\ curFlush' = Recv(in)
                  /\ UNCHANGED <<respawns, done, loggedCounter, errorCounter,
                                 writes, reported>>
             ELSE WorkerWrite(Recv(in))
     \/ /\ RangeEnds
        /\ done' = done + 1
        /\ wpc' = "exited"
        /\ UNCHANGED <<in, deq, curFlush, respawns, loggedCounter, errorCounter,
                       writes, reported>>
  /\ UNCHANGED <<engineVars, inClosed, enq, producerVars, droppedCounter,
                 blockedCounter, shutdownVars, signals>>

\* markers whose channel flush() signals on `default:`
FlushSignalled == {curFlush}

\* flush()'s select takes `default:`: no receive is ready (a closed channel
\* is always ready to receive)
FlushDefault == in = <<>> /\ ~inClosed

\* mutation of FlushErrorInc: the drain does not count the error
FlushErrorIncMissing(c) == c

\* flush(): `if b.errorCounter != nil { b.errorCounter.Inc() }`
FlushErrorInc(c) == CounterInc(c)

\* flush(), ordinary record: b.w.Write(rec) and the error counter
FlushWrite(r) ==
  \E res \in WriteResults :
     /\ writes' = Append(writes, [id |-> r, res |-> res, by |-> "flush"])
     /\ \/ /\ res = "ok"
           /\ UNCHANGED <<wpc, errorCounter, reported, curFlush, respawns, done>>
        \/ /\ res = "err"
           /\ errorCounter' = FlushErrorInc(errorCounter)
           /\ reported' = [reported EXCEPT ![r].write = @ + WriteErrorReports]
           /\ UNCHANGED <<wpc, curFlush, respawns, done>>
        \/ /\ res = "panic"
           /\ Respawn
           /\ UNCHANGED <<errorCounter, reported>>

\* flush(): one iteration of the select
FlushRecv ==
  /\ wpc = "flush"
  /\ \/ /\ in # <<>>                          \* case rec = <-b.in:
        /\ in' = Tail(in)
        /\ deq' = Append(deq, [id |-> Recv(in), by |-> "flush"])
        /\ IF IsFlush(Recv(in))               \* redundant marker: ignored
             THEN UNCHANGED <<wpc, curFlush, respawns, done, errorCounter,
                              writes, reported>>
             ELSE FlushWrite(Recv(in))
        /\ UNCHANGED signals
     \/ /\ FlushDefault                       \* default: on to the send
        /\ wpc' = "signal"
        /\ UNCHANGED <<in, deq, curFlush, signals, respawns, done, errorCounter,
                       writes, reported>>
     \/ /\ in = <<>>
        /\ inClosed                           \* receives nil: rec.flush panics
        /\ Respawn
        /\ UNCHANGED <<in, deq, signals, errorCounter, writes, reported>>
  /\ UNCHANGED <<engineVars, inClosed, enq, producerVars, loggedCounter,
                 droppedCounter, blockedCounter, shutdownVars>>

\* flush(): `done <- struct{}{}` completes (the flusher receives) and flush()
\* returns to the main loop; producers and Shutdown run while the worker waits
\* here
FlushSend ==
  /\ wpc = "signal"
  /\ signals' = [i \in Ids |-> IF i \in FlushSignalled
                                 THEN signals[i] + 1 ELSE signals[i]]
  /\ wpc' = "main"
  /\ curFlush' = 0
  /\ UNCHANGED <<engineVars, chanVars, respawns, done, deq, producerVars,
                 counterVars, shutdownVars, writes, reported>>

\* ---- Shutdown

\* the value Shutdown returns after leaving the select by branch `via`
ShutdownResult(via) == "nil"

\* close(b.in)
ShutdownClose ==
  /\ started
  /\ spc = "idle"
  /\ inClosed' = TRUE
  /\ atShutdown' = {in[i] : i \in 1..Len(in)}
  /\ spc' = "waiting"
  /\ UNCHANGED <<engineVars, in, enq, workerVars, producerVars, counterVars,
                 sres, svia, outVars>>

\* `case <-b.done:`
ShutdownDone ==
  /\ spc = "waiting"
  /\ done > 0
  /\ spc' = "returned"
  /\ svia' = "done"
  /\ sres' = ShutdownResult("done")
  /\ UNCHANGED <<engineVars, chanVars, workerVars, producerVars, counterVars,
                 atShutdown, outVars>>

\* `case <-ctx.Done():` the deadline expires while Shutdown waits
ShutdownDeadline ==
  /\ spc = "waiting"
  /\ spc' = "returned"
  /\ svia' = "ctx"
  /\ sres' = ShutdownResult("ctx")
  /\ UNCHANGED <<engineVars, chanVars, workerVars, producerVars, counterVars,
                 atShutdown, outVars>>

Next ==
  \/ Metrics
  \/ Start
  \/ \E p \in Producers : LogEnqueue(p)
  \/ \E p \in Producers : LogBlockedSend(p)
  \/ \E p \in Producers : LogTimeout(p)
  \/ WorkerRecv
  \/ FlushRecv
  \/ FlushSend
  \/ ShutdownClose
  \/ ShutdownDone
  \/ ShutdownDeadline

Spec == Init /\ [][Next]_vars

\* Producers keep running whatever the worker does: a goroutine that can take a
\* step is scheduled and the enqueue timer fires.  Nothing is assumed of the
\* worker or of Shutdown.
LogFairSpec ==
  /\ Spec
  /\ \A p \in Producers : WF_vars(LogTimeout(p))

\* The worker keeps running: its goroutine is scheduled whenever it can take a
\* step, every Write call returns or panics, and the send on a marker's
\* completion channel in flush() finds its receiver.  Nothing is assumed of the
\* producers or of Shutdown.
WorkerFairSpec ==
  /\ Spec
  /\ WF_vars(WorkerRecv) /\ WF_vars(FlushRecv) /\ WF_vars(FlushSend)

\* ---- properties

Range(q) == {q[i] : i \in 1..Len(q)}

\* ids handed to b.w.Write so far
WrittenIds == {writes[i].id : i \in 1..Len(writes)}

IsOrdinary(r) == ~IsFlush(r)

\* ordinary records in the order they entered the channel
OrdinaryEnq == SelectSeq(enq, IsOrdinary)

\* position of r in enq (0: never enqueued)
EnqPos(r) == IF \E i \in 1..Len(enq) : enq[i] = r
               THEN CHOOSE i \in 1..Len(enq) : enq[i] = r
               ELSE 0

\* a Write call for r was made and, if it returned an error, the error was
\* reported once
Delivered(r) ==
  \E i \in 1..Len(writes) :
     /\ writes[i].id = r
     /\ writes[i].res = "err" => reported[r].write = 1

\* C1 (FIFO per target): the sequence of records handed to Write is a prefix of
\* the sequence of ordinary records in the order they entered the queue, whether
\* the main loop or the flush drain wrote them and across worker respawns.
FifoPerTarget ==
  /\ Len(writes) <= Len(OrdinaryEnq)
  /\ \A i \in 1..Len(writes) : writes[i].id = OrdinaryEnq[i]

\* two records enqueued against the order of their Log calls, the first written
\* by the flush drain with a panic, the second by the respawned main loop
FifoWitness ==
  /\ Len(writes) = 2
  /\ writes[1].id > writes[2].id
  /\ writes[1].by = "flush" /\ writes[1].res = "panic"
  /\ writes[2].by = "main"
  /\ respawns > 0

\* C2 (shutdown drain): once the completion signal done has fired, and so
\* whenever Shutdown has returned by its done branch, every ordinary record that
\* was queued when Shutdown closed the queue has been handed to Write, and an
\* error Write returned for it was counted and reported.
ShutdownDrain ==
  (done > 0 \/ svia = "done") =>
     \A r \in atShutdown : IsOrdinary(r) =>
        /\ Delivered(r)
        /\ r \notin {in[i] : i \in 1..Len(in)}

\* Shutdown found two records queued, one of which failed to write, and
\* returned after done fired
ShutdownDrainWitness ==
  /\ svia = "done"
  /\ Cardinality({r \in atShutdown : IsOrdinary(r)}) >= 2
  /\ \E i \in 1..Len(writes) : writes[i].id \in atShutdown /\ writes[i].res = "err"
  /\ \E i \in 1..Len(writes) : writes[i].id \in atShutdown /\ writes[i].res = "ok"

\* C3 (flush marker ordering): a marker's completion channel is signalled only
\* after every ordinary record enqueued before the marker has been handed to
\* Write.
FlushMarkerOrdering ==
  \A m \in Ids : signals[m] > 0 =>
     \A i \in 1..Len(enq) : (i < EnqPos(m) /\ IsOrdinary(enq[i])) => Delivered(enq[i])

\* a marker was signalled with two records enqueued before it
FlushMarkerWitness ==
  \E m \in Ids : signals[m] > 0 /\ EnqPos(m) = 3 /\ Len(OrdinaryEnq) = 2

\* the Log call carrying r is still running
InCall(r) == \E p \in Producers : prec[p] = r /\ ppc[p] = "blocked"

InQueue(r) == \E i \in 1..Len(in) : in[i] = r

TimesEnqueued(r) == Cardinality({i \in 1..Len(enq) : enq[i] = r})

\* what the enqueue-timeout branch leaves behind for r
TimedOut(r) ==
  /\ reported[r].timeout = 1
  /\ TimesEnqueued(r) = 0
  /\ r \notin WrittenIds

\* r entered the queue after waiting, with no timeout reported
EnqueuedLate(r) ==
  /\ reported[r].timeout = 0
  /\ TimesEnqueued(r) = 1

\* C4 (backpressure law): a Log call that found the queue full and was not
\* dropped by the overflow handler incremented the blocked counter exactly once
\* and, once over, ended in exactly one of two ways: the record was enqueued, or
\* the enqueue timeout was reported and the record discarded and never written.
BackpressureLaw ==
  \A r \in Ids : calls[r].waited =>
     /\ metrics => calls[r].blockedIncs = 1
     /\ ~(reported[r].timeout > 0 /\ TimesEnqueued(r) > 0)
     /\ ~InCall(r) => (EnqueuedLate(r) \/ TimedOut(r))

\* the part of C4 that holds of every call, whatever Shutdown does meanwhile: a
\* waiting call that did not panic on the closed queue ended in one of the two
\* ways
BackpressureWhileOpen ==
  \A r \in Ids : calls[r].waited =>
     /\ metrics => calls[r].blockedIncs = 1
     /\ ~(reported[r].timeout > 0 /\ TimesEnqueued(r) > 0)
     /\ (~InCall(r) /\ calls[r].fate # "panic") => (EnqueuedLate(r) \/ TimedOut(r))

\* C5 (drop law): a Log call the overflow handler dropped found the queue full,
\* invoked the handler once, never entered the blocking select, raised the
\* dropped counter by exactly 1 and the blocked counter not at all, reported no
\* error, and its record was never enqueued or written; the handler is invoked
\* only after the non-blocking enqueue failed.
DropLaw ==
  /\ \A r \in Ids : calls[r].fate = "dropped" =>
        /\ calls[r].full /\ calls[r].hcalls = 1
        /\ ~calls[r].waited /\ ~InCall(r)
        /\ calls[r].blockedIncs = 0
        /\ reported[r].timeout = 0 /\ reported[r].write = 0
        /\ TimesEnqueued(r) = 0 /\ ~InQueue(r) /\ r \notin WrittenIds
  /\ \A r \in Ids : calls[r].hcalls > 0 => calls[r].full
  /\ droppedCounter = IF metrics
                        THEN Cardinality({r \in Ids : calls[r].fate = "dropped"})
                        ELSE 0

\* with metrics attached, two calls were dropped and one earlier record written
DropWitness ==
  /\ metrics
  /\ droppedCounter = 2
  /\ blockedCounter = 0
  /\ Len(writes) = 1

\* C6 (Log never blocks indefinitely): a Log call on a started target whose
\* queue has not been closed eventually returns (or the queue gets closed under
\* it), with no assumption that the worker ever takes a step.
LogReturns ==
  \A p \in Producers :
     (ppc[p] = "blocked" /\ ~inClosed) ~> (ppc[p] = "idle" \/ inClosed)

\* both producers wait in the blocking select on a full, open queue
LogReturnsWitness ==
  /\ \A p \in Producers : ppc[p] = "blocked"
  /\ ~inClosed
  /\ Len(in) = cap

\* C7 (Shutdown result): Shutdown returns nil when done fired before the
\* deadline and a timeout result when the deadline elapsed first.
ShutdownResultLaw ==
  /\ svia = "done" => sres = "nil"
  /\ svia = "ctx" => sres = "timeout"

\* the engine's state of the lifecycle Idle -> Running -> Draining -> Closed
EngineRank ==
  IF done > 0 THEN 3
  ELSE IF inClosed THEN 2
  ELSE IF started THEN 1
  ELSE 0

\* C8 (completion fires once, after drain): close(b.done) runs at most once, and
\* only when Shutdown has closed the queue and the queue is empty, whatever
\* writer errors, panics, respawns and flush markers occurred; the engine state
\* never moves backwards and advances one state at a time, so Closed is entered
\* from Draining.
CompletionOnce ==
  /\ [](done <= 1 /\ (done > 0 => inClosed /\ in = <<>>))
  /\ [][/\ done' # done => (done = 0 /\ done' = 1 /\ inClosed /\ in = <<>>
                              /\ EngineRank = 2)
        /\ EngineRank' >= EngineRank
        /\ EngineRank' <= EngineRank + 1]_vars

\* done fired after a run with a flush marker, a failed write and a respawn
CompletionWitness ==
  /\ done = 1
  /\ respawns > 0
  /\ \E i \in 1..Len(writes) : writes[i].res = "err"
  /\ \E i \in 1..Len(enq) : IsFlush(enq[i])

WritesOf(r) == {i \in 1..Len(writes) : writes[i].id = r}

\* the step is a Write call that panicked
PanicStep ==
  /\ Len(writes') = Len(writes) + 1
  /\ writes'[Len(writes')].res = "panic"

\* C9 (panic isolation): a Write that panics leaves a fresh worker at the head
\* of the main loop on the same queue, which has lost only the record being
\* written, changes no counter and reports nothing; a record is handed to Write
\* at most once and never re-enters the queue; and every ordinary record in the
\* queue is eventually handed to Write.
PanicIsolation ==
  /\ [](\A r \in Ids :
          /\ Cardinality(WritesOf(r)) <= 1
          /\ TimesEnqueued(r) <= 1
          /\ r \in WrittenIds => ~InQueue(r))
  /\ [][PanicStep =>
          /\ wpc' = "main"
          /\ in' = Tail(in) /\ enq' = enq /\ inClosed' = inClosed /\ done' = done
          /\ counterVars' = counterVars
          /\ reported' = reported]_vars
  /\ \A r \in Ids : (InQueue(r) /\ IsOrdinary(r)) ~> (r \in WrittenIds)

\* a record's Write panicked and a record enqueued after it was written by the
\* respawned worker
PanicWitness ==
  /\ Len(writes) >= 2
  /\ writes[1].res = "panic"
  /\ writes[2].res = "ok"
  /\ respawns = 1
  /\ EnqPos(writes[2].id) > EnqPos(writes[1].id)

\* the step is a Write call that returned an error
ErrorStep ==
  /\ Len(writes') = Len(writes) + 1
  /\ writes'[Len(writes')].res = "err"

ErrorWrites == {i \in 1..Len(writes) : writes[i].res = "err"}

\* C10 (write error is per record and not fatal): each Write that returned an
\* error, in the main loop or in the flush drain, raised the error counter by
\* one and was reported once; it did not raise the logged counter; the record
\* is not written again; and the worker is back in the loop it was in, with the
\* rest of the queue still to process.
WriteErrorLaw ==
  /\ [](/\ errorCounter = IF metrics THEN Cardinality(ErrorWrites) ELSE 0
        /\ \A r \in Ids :
              /\ reported[r].write = Cardinality(WritesOf(r) \cap ErrorWrites)
              /\ Cardinality(WritesOf(r)) <= 1)
  /\ [][ErrorStep =>
          /\ errorCounter' = errorCounter + IncCalls
          /\ loggedCounter' = loggedCounter
          /\ wpc' = wpc
          /\ in' = Tail(in) /\ done' = done /\ respawns' = respawns]_vars

\* with metrics attached, a write failed in the main loop and the worker went
\* on to the next record, whose write failed in the flush drain
WriteErrorWitness ==
  /\ metrics
  /\ Len(writes) = 2
  /\ writes[1].res = "err" /\ writes[1].by = "main"
  /\ writes[2].res = "err" /\ writes[2].by = "flush"
  /\ errorCounter = 2
  /\ loggedCounter = 0
  /\ wpc = "flush"

TypeOK ==
  /\ Len(in) <= cap
  /\ wpc \in {"none", "main", "flush", "signal", "exited"}
  /\ \A p \in Producers : ppc[p] \in {"idle", "blocked", "panicked"}
  /\ (curFlush # 0) = (wpc \in {"flush", "signal"})
\* ---- the level filter: calls and specification

\* a call of Basic.IsLevelEnabled on the started target
IsLevelEnabledCall ==
  /\ started
  /\ \E lvl \in LevelInputs :
       query' = <<[fn |-> "IsLevelEnabled", lvl |-> lvl,
                   enabled |-> IsLevelEnabled(lvl).enabled,
                   stacktrace |-> IsLevelEnabled(lvl).stacktrace,
                   level |-> ZeroLevel]>>
  /\ UNCHANGED <<started, metrics, cap, handler, filterArg, filter, levels,
                 sampler, gauge, chanVars, workerVars, producerVars,
                 counterVars, shutdownVars, outVars>>

\* a call of GetEnabledLevel on the target's filter
GetEnabledLevelCall ==
  /\ started
  /\ \E lvl \in LevelInputs :
       LET res == GetEnabledLevel(filter[1], lvl) IN
       query' = <<[fn |-> "GetEnabledLevel", lvl |-> lvl,
                   enabled |-> res[2],
                   stacktrace |-> res[1].Stacktrace,
                   level |-> res[1]]>>
  /\ UNCHANGED <<started, metrics, cap, handler, filterArg, filter, levels,
                 sampler, gauge, chanVars, workerVars, producerVars,
                 counterVars, shutdownVars, outVars>>

\* Start is given nil or any StdFilter over the standard levels
FilterInit ==
  /\ InitEngine
  /\ handler = "nil"
  /\ filterArg \in {<<>>} \cup {<<f>> : f \in StdFilters}

FilterNext ==
  \/ Start
  \/ IsLevelEnabledCall
  \/ GetEnabledLevelCall

\* the filter's functions applied to every input on every configuration
FilterSpec == FilterInit /\ [][FilterNext]_vars

\* rank of a severity: lower is more severe
Rank(level) == level.ID

\* C11 (Std Filter semantics): on a target whose filter has level L and
\* stacktrace level S, IsLevelEnabled(s) returns enabled = (rank(s) <= rank(L))
\* and stacktrace = (rank(s) <= rank(S)); enabled does not depend on S nor
\* stacktrace on L; every severity of lower rank than an enabled one is enabled;
\* and GetEnabledLevel reports the enabled value IsEnabled reports.
StdFilterSemantics ==
  query # <<>> =>
     LET q == query[1]
         lt == filter[1]
     IN /\ q.fn = "IsLevelEnabled" =>
             /\ q.enabled = (Rank(q.lvl) <= Rank(lt.Lvl))
             /\ q.stacktrace = (Rank(q.lvl) <= Rank(lt.Stacktrace))
             /\ \A f \in StdFilters :
                   /\ f.Lvl = lt.Lvl => IsEnabled(f, q.lvl) = q.enabled
                   /\ f.Stacktrace = lt.Stacktrace =>
                        IsStacktraceEnabled(f, q.lvl) = q.stacktrace
             /\ q.enabled =>
                   \A s1 \in LevelInputs :
                      Rank(s1) < Rank(q.lvl) => IsLevelEnabled(s1).enabled
        /\ q.fn = "GetEnabledLevel" =>
             /\ q.enabled = IsEnabled(lt, q.lvl)
             /\ q.stacktrace = IsStacktraceEnabled(lt, q.lvl)

\* a severity of exactly the filter's level, asked under a name of the caller's
\* own, is enabled but gets no stack trace because S is more severe than L
StdFilterWitness ==
  /\ query # <<>>
  /\ query[1].fn = "IsLevelEnabled"
  /\ query[1].lvl.Name = "alias"
  /\ filter[1].Lvl = Warn /\ filter[1].Stacktrace = Error
  /\ query[1].enabled /\ ~query[1].stacktrace

\* C17 as stated (default filter): after Start with a nil filter,
\* IsLevelEnabled reports enabled for Panic (rank 0) and for no other severity.
DefaultFilterPanicOnly ==
  (query # <<>> /\ filterArg = <<>> /\ query[1].fn = "IsLevelEnabled") =>
     query[1].enabled = (Rank(query[1].lvl) = Rank(Panic))

\* C17 (default filter, amended): after Start with a nil filter, IsLevelEnabled
\* reports enabled for the two most severe levels, Panic and Fatal (rank <= 1),
\* and for no other severity; it reports stacktrace for Panic only.
DefaultFilterLaw ==
  (query # <<>> /\ filterArg = <<>> /\ query[1].fn = "IsLevelEnabled") =>
     /\ query[1].enabled = (Rank(query[1].lvl) <= Rank(Fatal))
     /\ query[1].stacktrace = (Rank(query[1].lvl) = Rank(Panic))

\* the target started with a nil filter reported Fatal as enabled
DefaultFilterWitness ==
  /\ query # <<>>
  /\ filterArg = <<>>
  /\ query[1].fn = "IsLevelEnabled"
  /\ query[1].lvl = Fatal
  /\ query[1].enabled

\* ---- filtering and delivery end to end

\* the standard filters and severities the writer target is exercised with
DeliveryFilters == {[Lvl |-> Warn, Stacktrace |-> Error],
                    [Lvl |-> Error, Stacktrace |-> Error]}
DeliveryLevels == {Error, Warn, Debug, Trace}

\* The owning logger, for the next record it is asked to log: it asks the
\* target's IsLevelEnabled and hands the record to the target's Log only if
\* the level is enabled; a record of a disabled level goes no further.
LoggerFilter ==
  /\ started
  /\ \E i \in Ids : kinds[i] = "none"
  /\ levels[NextId] = -1
  /\ \E lvl \in DeliveryLevels :
       /\ levels' = [levels EXCEPT ![NextId] = lvl.ID]
       /\ kinds' = IF IsLevelEnabled(lvl).enabled
                     THEN kinds
                     ELSE [kinds EXCEPT ![NextId] = "filtered"]
  /\ UNCHANGED <<started, metrics, cap, handler, filterArg, filter, query,
                 sampler, gauge, chanVars, workerVars, ppc, prec, calls,
                 counterVars, shutdownVars, outVars>>

\* the logger's call of Log for the record whose level it found enabled
LoggerLog(p) ==
  /\ \E i \in Ids : kinds[i] = "none"
  /\ levels[NextId] # -1
  /\ LogEnqueue(p)
  /\ kinds'[NextId] = "rec"

\* the logger's Flush: a marker goes to the target whatever the filter says
LoggerFlush(p) ==
  /\ \E i \in Ids : kinds[i] = "none"
  /\ levels[NextId] = -1
  /\ LogEnqueue(p)
  /\ kinds'[NextId] = "flush"

DeliveryInit ==
  /\ InitEngine
  /\ handler = "nil"
  /\ filterArg \in {<<>>} \cup {<<f>> : f \in DeliveryFilters}

DeliveryNext ==
  \/ Start
  \/ LoggerFilter
  \/ \E p \in Producers : LoggerLog(p)
  \/ \E p \in Producers : LoggerFlush(p)
  \/ \E p \in Producers : LogBlockedSend(p)
  \/ \E p \in Producers : LogTimeout(p)
  \/ WorkerRecv
  \/ FlushRecv
  \/ FlushSend
  \/ ShutdownClose
  \/ ShutdownDone
  \/ ShutdownDeadline

\* records logged through the filter by concurrent producers, then Shutdown
DeliverySpec == DeliveryInit /\ [][DeliveryNext]_vars

\* every record the logger was asked to log has been dealt with: filtered out,
\* or handed to Log by a call that has returned after enqueueing it
AllLogged ==
  /\ \A p \in Producers : ppc[p] = "idle"
  /\ \A r \in Ids :
       /\ calls[r].fate \in {"none", "enqueued"}
       /\ levels[r] # -1 => kinds[r] \in {"rec", "filtered"}
       /\ kinds[r] = "rec" => calls[r].fate = "enqueued"

\* C12 (end-to-end filtering and delivery): on a target whose filter has level
\* L, when no record was dropped, timed out or caught by the closing of the
\* queue and Shutdown has returned after the completion signal, every record
\* logged at a severity of rank <= rank(L) has been handed to Write exactly once
\* and no record of rank > rank(L) has been handed to Write.
DeliveryLaw ==
  (svia = "done" /\ AllLogged) =>
     \A r \in Ids : levels[r] # -1 =>
        Cardinality(WritesOf(r)) = IF levels[r] <= Rank(filter[1].Lvl) THEN 1 ELSE 0

\* Shutdown completed after three records were logged, one of them by a call
\* that had to wait for room: two were written and the third was filtered out
DeliveryWitness ==
  /\ svia = "done"
  /\ AllLogged
  /\ \A r \in Ids : levels[r] # -1
  /\ Cardinality({r \in Ids : kinds[r] = "filtered"}) = 1
  /\ Len(writes) = 2
  /\ \E r \in Ids : calls[r].waited /\ r \in WrittenIds

\* ---- Shutdown's deadline, the logged counter, Log racing Shutdown, flush

\* C13 (abandonment at deadline): once Shutdown has returned because its
\* deadline expired, no record is handed to Write any more.
AbandonedAtDeadline ==
  [][(spc = "returned" /\ svia = "ctx") => writes' = writes]_vars

\* the Write calls that returned nil
OkWrites == {i \in 1..Len(writes) : writes[i].res = "ok"}

\* C14 (logged counter accounting): with metrics attached, the logged counter
\* equals the number of Write calls that returned without error, whether the
\* main loop or the flush drain made them.
LoggedCounterLaw ==
  metrics => loggedCounter = Cardinality(OkWrites)

\* C19 (Log racing Shutdown): a Log call that was waiting in the blocking
\* enqueue, and so had started before Shutdown closed the queue, ends by
\* enqueueing, dropping or timing out and never by a send on the closed queue.
LogSurvivesShutdown ==
  \A r \in Ids : calls[r].waited => calls[r].fate # "panic"

\* C20 (flush completes): a drain pass that is not cut short by a panicking
\* Write ends by signalling its marker's completion channel and returning to the
\* main loop, also when Shutdown has closed the queue before or during the
\* pass.
FlushCompletes ==
  [][(/\ wpc \in {"flush", "signal"}
      /\ wpc' \notin {"flush", "signal"}
      /\ writes' = writes) =>
        /\ signals'[curFlush] = signals[curFlush] + 1
        /\ wpc' = "main"
        /\ respawns' = respawns]_vars

\* ---- conservation of records, redundant flush markers

\* records handed to Log so far (ordinary records and markers)
Handed == {r \in Ids : kinds[r] \in {"rec", "flush"}}

WithFate(f) == {r \in Ids : calls[r].fate = f}

\* records whose Log call is waiting in the blocking enqueue
Waiting == {r \in Handed : InCall(r)}

DeqIds == {deq[i].id : i \in 1..Len(deq)}

\* the queue capacity is fixed by Start; no record is dequeued twice or without
\* having been enqueued
QueueIntegrity ==
  /\ [](/\ \A i, j \in 1..Len(deq) : deq[i].id = deq[j].id => i = j
        /\ \A r \in DeqIds : TimesEnqueued(r) = 1 /\ ~InQueue(r))
  /\ [][started => cap' = cap]_vars

\* C15 as stated (record conservation): the capacity never changes after Start,
\* and in every reachable state the number of records dequeued by the worker
\* equals the number handed to Log minus the dropped, the timed out and the
\* still queued ones; no record is dequeued twice or without being enqueued.
ConservationAsStated ==
  /\ [](Len(deq) + Cardinality(WithFate("dropped"))
           + Cardinality(WithFate("timeout")) + Len(in) = Cardinality(Handed))
  /\ QueueIntegrity

\* C15 (record conservation, amended): the capacity never changes after Start,
\* and in every reachable state the number of records dequeued by the worker
\* equals the number handed to Log minus the dropped, the timed out, the still
\* queued ones, those whose Log call is still waiting in the blocking enqueue
\* and those whose Log call ended in a send on the closed queue; no record is
\* dequeued twice or without being enqueued.
ConservationLaw ==
  /\ [](Len(deq) + Cardinality(WithFate("dropped"))
           + Cardinality(WithFate("timeout")) + Len(in)
           + Cardinality(Waiting) + Cardinality(WithFate("panic"))
         = Cardinality(Handed))
  /\ QueueIntegrity

\* one record dequeued, one queued and one whose Log call is waiting for room
ConservationWitness ==
  /\ Len(deq) = 1
  /\ Len(in) = 1
  /\ Cardinality(Waiting) = 1
  /\ Cardinality(Handed) = 3

\* the step is the flush drain receiving a marker
RedundantMarkerStep ==
  /\ wpc = "flush"
  /\ Len(deq') = Len(deq) + 1
  /\ IsFlush(deq'[Len(deq')].id)

\* the part of C16 that holds of every pass: a completion channel is signalled
\* at most once, only by the pass its marker started and at the end of that
\* pass; a marker dequeued during a pass is discarded, its channel never
\* signalled and no nested drain started
RedundantMarkersIgnored ==
  /\ [](\A m \in Ids :
          /\ signals[m] <= 1
          /\ signals[m] = 1 => [id |-> m, by |-> "main"] \in Range(deq)
          /\ [id |-> m, by |-> "flush"] \in Range(deq) => signals[m] = 0)
  /\ [][RedundantMarkerStep =>
          /\ signals' = signals
          /\ wpc' = "flush" /\ curFlush' = curFlush
          /\ writes' = writes]_vars
  /\ [][signals' # signals =>
          /\ wpc = "signal" /\ wpc' = "main"
          /\ signals[curFlush] = 0
          /\ signals' = [signals EXCEPT ![curFlush] = 1]]_vars

\* the step ends a drain pass: the worker leaves flush()
PassEnds ==
  /\ wpc \in {"flush", "signal"}
  /\ wpc' \notin {"flush", "signal"}

\* C16 (redundant flush markers): in a drain pass only the completion channel of
\* the marker that started the pass is signalled, and it is signalled exactly
\* once: when the pass ends that channel has one signal; a marker dequeued
\* during the pass is discarded, its channel never signalled and no nested drain
\* started; no completion channel is signalled twice.
RedundantMarkers ==
  /\ RedundantMarkersIgnored
  /\ [][PassEnds => signals'[curFlush] = 1]_vars

\* ---- the metrics sampler: Basic.startMetricsUpdater

\* The select of the sampler's loop.  Neither case has a guard: when b.done is
\* closed and the timer has expired as well, either case can be chosen.
SamplerSelect ==
  /\ sampler = "wait"
  /\ \/ /\ done > 0                          \* case <-b.done: return
        /\ sampler' = "exited"
     \/ sampler' = "tick"                    \* case <-time.After(...):
  /\ UNCHANGED <<started, metrics, cap, handler, filterArg, filter, query,
                 levels, gauge, chanVars, workerVars, producerVars,
                 counterVars, shutdownVars, outVars>>

\* mutation of SamplerSet: the gauge is given the queue's capacity
SamplerSetCap ==
  /\ sampler = "tick"
  /\ gauge' = cap
  /\ sampler' = "wait"
  /\ UNCHANGED <<started, metrics, cap, handler, filterArg, filter, query,
                 levels, chanVars, workerVars, producerVars, counterVars,
                 shutdownVars, outVars>>

\* the body of the timer case:
\* `if b.queueSizeGauge != nil { b.queueSizeGauge.Set(float64(len(b.in))) }`
SamplerSet ==
  /\ sampler = "tick"
  /\ gauge' = IF metrics THEN Len(in) ELSE gauge
  /\ sampler' = "wait"
  /\ UNCHANGED <<started, metrics, cap, handler, filterArg, filter, query,
                 levels, chanVars, workerVars, producerVars, counterVars,
                 shutdownVars, outVars>>

SamplerInit ==
  /\ Init
  /\ handler = "nil"

SamplerNext ==
  \/ Metrics
  \/ Start
  \/ \E p \in Producers : LogEnqueue(p)
  \/ \E p \in Producers : LogBlockedSend(p)
  \/ \E p \in Producers : LogTimeout(p)
  \/ WorkerRecv
  \/ FlushRecv
  \/ FlushSend
  \/ ShutdownClose
  \/ ShutdownDone
  \/ ShutdownDeadline
  \/ SamplerSelect
  \/ SamplerSet

\* The engine together with its sampler.  The sampler's goroutine is scheduled
\* whenever it can take a step and its timer fires; select chooses among its
\* ready cases at random, so a case that is ready at every select is chosen in
\* the end.  Nothing is assumed of the producers, the worker or Shutdown.
SamplerSpec ==
  /\ SamplerInit
  /\ [][SamplerNext]_vars
  /\ WF_vars(SamplerSelect) /\ WF_vars(SamplerSet)
  /\ SF_vars(SamplerSelect /\ sampler' = "exited")

\* Start launches the sampler if and only if the gauge was attached before it
SamplerLaunched ==
  /\ ~started => sampler = "none"
  /\ started => ((sampler # "none") = metrics)

\* the step is the sampler's Set call
SamplerSetStep == sampler = "tick" /\ sampler' = "wait"

\* C18 as stated (metrics sampler lifecycle): Start launches a sampler if and
\* only if the gauge was attached before Start; the sampler sets the gauge to
\* the current queue depth, and never after the completion signal has fired;
\* once the completion signal has fired the sampler eventually terminates.
SamplerNeverSetsAfterDone ==
  /\ []SamplerLaunched
  /\ [][SamplerSetStep => (gauge' = Len(in) /\ done = 0)]_vars
  /\ (done > 0) ~> (sampler \in {"none", "exited"})

\* C18 (metrics sampler lifecycle, amended): Start launches a sampler if and
\* only if the gauge was attached before Start; on a tick the sampler sets the
\* gauge to the queue depth at the time of the Set call without checking that
\* the engine is still open, so a Set can follow the completion signal and then
\* records the depth 0 of the drained queue; once the completion signal has
\* fired the sampler eventually terminates.
SamplerLifecycle ==
  /\ []SamplerLaunched
  /\ [][SamplerSetStep => gauge' = Len(in)]_vars
  /\ [][(SamplerSetStep /\ done > 0) => gauge' = 0]_vars
  /\ (done > 0) ~> (sampler \in {"none", "exited"})

\* the sampler has set the gauge to a depth of one or more and has taken
\* another tick, whose Set call is still to come although the completion signal
\* has fired
SamplerWitness ==
  /\ sampler = "tick"
  /\ gauge >= 1
  /\ done > 0

====
